---- MODULE Spec2Model ----
(***************************************************************************)
(* A model of the split-screen terminal editor of async-editor             *)
(* (src/src/lib.rs): the Editor state, Editor::handle_event with every key *)
(* and resize handler, Editor::writeout, and the output channel between    *)
(* SharedStdout::write and AsyncEditor::async_editor and flush.            *)
(*                                                                         *)
(* Strings are sequences of UTF-8 bytes.  A byte is one of                 *)
(*   "a"   a letter (one byte, one cell)                                   *)
(*   " "   a space  (one byte, one cell, whitespace)                       *)
(*   "\t"  a tab    (one byte, a control character)                        *)
(*   "W"   the lead byte of a three-byte wide character (two cells)        *)
(*   "M"   the lead byte of a two-byte combining mark (no cell)            *)
(*   "c"   a continuation byte                                             *)
(* Terminal output is not part of the state; a handler's rendering calls   *)
(* appear only where they can change the state or panic.                   *)
(***************************************************************************)
EXTENDS Integers, Sequences, FiniteSets, TLC

VARIABLES
    ed,      \* the Editor struct (lib.rs 213-235), plus the process's fate
    edits,   \* editing events handled so far (bounded by MaxEdits)
    writes,  \* output messages handled so far (bounded by MaxWrites)
    router   \* the output channel, its two ends, and the caller of the editor

vars == <<ed, edits, writes, router>>

(***************************************************************************)
(* Bounds of the model.                                                    *)
(***************************************************************************)
MaxEdits == 1
MaxWrites == 2

(***************************************************************************)
(* Program constants.                                                      *)
(***************************************************************************)
HISTORY_BUFFER_SIZE == 192000
U16 == 65536

Min(a, b) == IF a < b THEN a ELSE b
Max(a, b) == IF a > b THEN a ELSE b
SatSub(a, b) == IF a > b THEN a - b ELSE 0

\* Rust's `as u16` of an integer, and `as i16` of a u16 or an integer.
AsU16(x) == x % U16
AsI16(x) == LET m == x % U16 IN IF m >= 32768 THEN m - U16 ELSE m
\* A u16 or i16 result that the type cannot hold: a panic in a build with
\* overflow checks, the wrapped value otherwise.
FitsU16(x) == x >= 0 /\ x < U16
FitsI16(x) == x >= -32768 /\ x < 32768

(***************************************************************************)
(* Strings: char and grapheme-cluster boundaries.  Index i in 0..Len(s)    *)
(* is the byte offset; s[i+1] is the byte that starts there.               *)
(***************************************************************************)
Slice(s, a, b) == SubSeq(s, a + 1, b)

\* str::is_char_boundary
IsCharBoundary(s, i) ==
    \/ i = 0
    \/ i = Len(s)
    \/ i > 0 /\ i < Len(s) /\ s[i + 1] # "c"

\* An extended grapheme cluster starts at a char boundary, except that a
\* combining mark extends the character before it unless that is a control
\* character (the tab).
IsGraphemeBoundary(s, i) ==
    \/ i = 0
    \/ i = Len(s)
    \/ i > 0 /\ i < Len(s) /\ s[i + 1] # "c" /\ ~(s[i + 1] = "M" /\ s[i] # "\t")

\* A range s[a..b] that Rust accepts; any other one panics.
SliceOk(s, a, b) ==
    a <= b /\ b <= Len(s) /\ IsCharBoundary(s, a) /\ IsCharBoundary(s, b)

\* grapheme_utils: the largest grapheme boundary <= idx.
grapheme_idx_at_idx(s, idx) ==
    IF idx >= Len(s) THEN Len(s)
    ELSE CHOOSE b \in 0..idx :
             /\ IsGraphemeBoundary(s, b)
             /\ \A k \in (b + 1)..idx : ~IsGraphemeBoundary(s, k)

\* grapheme_utils: the smallest grapheme boundary > idx, or the length.
next_grapheme_idx_from_idx(s, idx) ==
    IF idx >= Len(s) THEN Len(s)
    ELSE CHOOSE b \in (idx + 1)..Len(s) :
             /\ IsGraphemeBoundary(s, b)
             /\ \A k \in (idx + 1)..(b - 1) : ~IsGraphemeBoundary(s, k)

\* grapheme_utils: the largest grapheme boundary < idx, or 0.
prev_grapheme_idx_from_idx(s, idx) ==
    IF idx = 0 THEN 0
    ELSE grapheme_idx_at_idx(s, idx - 1)

\* The first char of the grapheme at idx ('\0' past the end), as its lead byte.
ch(s, idx) ==
    IF idx >= Len(s) THEN "\\0" ELSE s[grapheme_idx_at_idx(s, idx) + 1]

\* The first char of the grapheme before idx ('\0' at the start).
prev_char(s, idx) ==
    LET p == prev_grapheme_idx_from_idx(s, idx)
    IN IF idx = 0 \/ p >= Len(s) THEN "\\0" ELSE s[p + 1]

\* char::is_whitespace
is_whitespace(c) == c \in {" ", "\t"}

\* Display width of one byte's character: counted at its lead byte.
ByteWidth(b) ==
    CASE b = "a" -> 1
      [] b = " " -> 1
      [] b = "\t" -> 1
      [] b = "W" -> 2
      [] OTHER -> 0

\* grapheme_utils::string_width: cells of a string, a tab counting 1.
RECURSIVE string_width(_)
string_width(s) ==
    IF s = <<>> THEN 0 ELSE ByteWidth(Head(s)) + string_width(Tail(s))

\* lib.rs 292-303: width of st with tabs expanded to the next tab stop,
\* the running width starting at `width` and the tab stops shifted by ofs.
RECURSIVE TabbedWidth(_, _, _, _)
TabbedWidth(st, ofs, ts, width) ==
    IF st = <<>> THEN width
    ELSE LET char_width == IF Head(st) = "\t" THEN ts - ((width + ofs) % ts)
                           ELSE ByteWidth(Head(st))
         IN TabbedWidth(Tail(st), ofs, ts, width + char_width)

(***************************************************************************)
(* The Editor.  A record e holds the fields of the struct; e.panic says    *)
(* that the process has panicked (its other fields are then meaningless),  *)
(* and e.debug that the call runs in a build that checks integer overflow  *)
(* (such a build panics where any other build wraps).  Every operator      *)
(* below that takes an editor returns the editor after the call, and       *)
(* passes a panicked one through unchanged.  The terminal is at least two  *)
(* cells wide, and writing to it does not fail.                            *)
(***************************************************************************)
Panic(e) == [e EXCEPT !.panic = TRUE]

\* self.lines[self.lineidx]
Line(e) == e.lines[e.lineidx + 1]

\* Editor::len
len(e) == Len(Line(e))

\* Editor::grapheme_width_lofs_to_lidx; it slices lines[lineidx][lofs..lidx]
\* and panics when that is no valid range.
WidthOk(e) == SliceOk(Line(e), e.lofs, e.lidx)

grapheme_width_lofs_to_lidx(e) ==
    LET st == Slice(Line(e), e.lofs, e.lidx)
    IN IF \A k \in 1..Len(st) : st[k] # "\t"
       THEN string_width(st)
       ELSE TabbedWidth(st, string_width(Slice(Line(e), 0, e.lofs)) % e.tabstop,
                        e.tabstop, 0)

\* maxwidth as it would be if the cursor could stand past the last column.
maxwidth_full_row(e) == e.sizex

\* Editor::setpos, line 899: the cells left of the last column.
maxwidth(e) == e.sizex - 1

\* Editor::setpos before its loop (lib.rs 900-919): lidx is snapped to a
\* grapheme boundary and lofs reset or snapped.
setpos_snap(e) ==
    LET lidx1 == grapheme_idx_at_idx(Line(e), e.lidx)
        lofs1 == IF e.loose_cursor
                 THEN IF lidx1 < e.lofs + AsU16(e.sizey * 4) + 15
                      THEN 0
                      ELSE grapheme_idx_at_idx(Line(e), e.lofs)
                 ELSE e.lofs
        lofs2 == IF lidx1 < lofs1 THEN 0 ELSE lofs1
    IN [e EXCEPT !.lidx = lidx1, !.lofs = lofs2, !.loose_cursor = FALSE]

\* Editor::setpos, one pass of its loop (lib.rs 921-931) with stwidth
\* computed at its head: it returns when the text between lofs and lidx fits,
\* and advances lofs by one grapheme when it does not.
setpos_fits(e) == grapheme_width_lofs_to_lidx(e) <= maxwidth(e)

setpos_return(e) == [e EXCEPT !.curx = grapheme_width_lofs_to_lidx(e)]

setpos_advance(e) ==
    [e EXCEPT !.lofs = next_grapheme_idx_from_idx(Line(e), e.lofs)]

\* Editor::setpos, the loop: advance lofs one grapheme at a time until the
\* text between lofs and lidx fits in sizex - 1 cells.
RECURSIVE SetposLoop(_)
SetposLoop(e) ==
    IF ~WidthOk(e) THEN Panic(e)
    ELSE IF setpos_fits(e) THEN setpos_return(e)
    ELSE SetposLoop(setpos_advance(e))

\* Editor::setpos
setpos(e) ==
    IF e.panic THEN e
    ELSE IF e.lineidx >= Len(e.lines) THEN Panic(e)
    ELSE SetposLoop(setpos_snap(e))

\* Editor::matchpos
matchpos(e) == setpos(e)

\* Editor::redraw changes no field; it computes printlines + 1 and
\* printlines + 2 in u16.
redraw(e) ==
    IF e.panic THEN e
    ELSE IF e.debug /\ ~FitsU16(e.printlines + 2) THEN Panic(e)
    ELSE e

\* Editor::redrawline changes no field.
redrawline(e) == e

\* lib.rs 848-863: the cells the loop of redrawline prints for st, a tab
\* filling up to the next tab stop counted from the first cell printed; the
\* loop stops at the first grapheme that would pass maxw + 1.
RECURSIVE RenderedWidth(_, _, _, _)
RenderedWidth(st, ts, width, maxw) ==
    IF st = <<>> THEN width
    ELSE LET char_width == IF Head(st) = "\t" THEN ts - (width % ts)
                           ELSE ByteWidth(Head(st))
         IN IF width + char_width > maxw + 1 THEN width
            ELSE RenderedWidth(Tail(st), ts, width + char_width, maxw)

\* The cells redrawline prints for the part of the current line that is
\* before the cursor, lines[lineidx][start..lidx] (lib.rs 826-866).
redrawline_cells(e) ==
    LET start == IF e.lofs > len(e) THEN 0
                 ELSE grapheme_idx_at_idx(Line(e), e.lofs)
        line == Slice(Line(e), start, len(e))
        maxw == e.sizex - 2
        shown == Slice(Line(e), start, e.lidx)
    IN IF string_width(line) <= maxw /\ \A k \in 1..Len(line) : line[k] # "\t"
       THEN string_width(shown)
       ELSE RenderedWidth(shown, e.tabstop, 0, maxw)

\* Editor::writebuf.  Every segment that ends in a newline moves the print
\* cursor to column 0 of the next row; a last segment without one advances
\* printx by its length and wraps at sizex.  Then printy is clamped and the
\* editor redrawn.
NewlineCount(buf) == Cardinality({k \in 1..Len(buf) : buf[k] = "\n"})

LastSegmentLen(buf) ==
    LET nl == {k \in 1..Len(buf) : buf[k] = "\n"}
    IN IF nl = {} THEN Len(buf)
       ELSE Len(buf) - (CHOOSE k \in nl : \A j \in nl : j <= k)

\* The rows a last segment without a newline wraps over (lib.rs 953-957).
writebuf_wraps(e, buf) ==
    LET t == LastSegmentLen(buf)
        x == (IF NewlineCount(buf) > 0 THEN 0 ELSE e.printx) + t
    IN IF t > 0 /\ x > e.sizex THEN (x - 1) \div e.sizex ELSE 0

\* The row the loop over the segments leaves in printy (lib.rs 945-960).
writebuf_row(e, buf) == e.printy + NewlineCount(buf) + writebuf_wraps(e, buf)

\* The rows of the terminal::ScrollUp that writebuf queues, 0 when it queues
\* none (lib.rs 962-965).
writebuf_ScrollUp(e, buf) ==
    LET printy1 == Min(writebuf_row(e, buf), e.sizey)
    IN IF printy1 > e.printlines THEN printy1 - e.printlines ELSE 0

writebuf(e, buf) ==
    IF e.panic THEN e
    ELSE LET n == NewlineCount(buf)
             t == LastSegmentLen(buf)
             x == (IF n > 0 THEN 0 ELSE e.printx) + t
             wraps == writebuf_wraps(e, buf)
             printx1 == IF t > 0 THEN x - wraps * e.sizex
                        ELSE IF n > 0 THEN 0 ELSE e.printx
             printy1 == Min(writebuf_row(e, buf), e.sizey)
             printy2 == IF printy1 > e.printlines THEN e.printlines ELSE printy1
         IN redraw([e EXCEPT !.printx = printx1, !.printy = printy2])

(***************************************************************************)
(* The history buffer (crate historybuffer): e.histbuf is the logical      *)
(* stream of every byte appended; a byte is retained while fewer than      *)
(* HISTORY_BUFFER_SIZE bytes follow its index.  Output bytes are "x" and   *)
(* "\n".                                                                   *)
(***************************************************************************)
None == "None"

get_last_index(h) == Len(h)

\* HistoryBuffer::get(abs_index)
HistGet(h, i) ==
    IF i >= 0 /\ i < Len(h) /\ i + HISTORY_BUFFER_SIZE >= Len(h) THEN h[i + 1] ELSE None

\* HistoryBuffer::get_recent(n)
get_recent(h, n) ==
    LET k == Min(Min(n, Len(h)), HISTORY_BUFFER_SIZE)
    IN SubSeq(h, Len(h) - k + 1, Len(h))

Reverse(s) == [k \in 1..Len(s) |-> s[Len(s) + 1 - k]]

\* The gathering loop of writehistory, forward from index start (PageDown,
\* lib.rs 989-999, and the full first page of PageUp, lib.rs 1035-1045):
\* the bytes gathered and the lines counted.
RECURSIVE GatherForward(_, _, _, _, _, _, _)
GatherForward(h, start, buf, linecnt, num_lines, printlines, sizex) ==
    LET c == HistGet(h, start + Len(buf))
    IN IF c = None THEN [buf |-> buf, num_lines |-> num_lines]
       ELSE IF c = "\n" \/ linecnt - 1 = 0
            THEN IF num_lines + 1 >= printlines
                 THEN [buf |-> Append(buf, c), num_lines |-> num_lines + 1]
                 ELSE GatherForward(h, start, Append(buf, c), sizex - 1,
                                    num_lines + 1, printlines, sizex)
            ELSE GatherForward(h, start, Append(buf, c), linecnt - 1,
                               num_lines, printlines, sizex)

\* The gathering loop of writehistory PageUp, backward from hb_start_index
\* (lib.rs 1014-1028): the bytes gathered (newest first) and the index reached.
RECURSIVE GatherBackward(_, _, _, _, _, _, _)
GatherBackward(h, start, buf, linecnt, num_lines, printlines, sizex) ==
    LET c == HistGet(h, start)
    IN IF c = None THEN [buf |-> buf, start |-> start]
       ELSE IF (c = "\n" \/ linecnt - 1 = 0) /\ num_lines + 1 >= printlines
            THEN [buf |-> Append(buf, c), start |-> start]
       ELSE IF start = 0 THEN [buf |-> Append(buf, c), start |-> start]
       ELSE IF c = "\n" \/ linecnt - 1 = 0
            THEN GatherBackward(h, start - 1, Append(buf, c), sizex - 1,
                                num_lines + 1, printlines, sizex)
            ELSE GatherBackward(h, start - 1, Append(buf, c), linecnt - 1,
                                num_lines, printlines, sizex)

\* Editor::writehistory, the bytes it passes to writebuf.
writehistory_PageDown_page(e) ==
    LET g == GatherForward(e.histbuf, e.hb_end_index, <<>>, e.sizex, 0,
                           e.printlines, e.sizex)
    IN IF g.num_lines < e.printlines
       THEN get_recent(e.histbuf, e.printlines * e.sizex)
       ELSE g.buf

writehistory_PageUp_page(e) ==
    LET g == GatherBackward(e.histbuf, e.hb_start_index, <<>>, e.sizex, 0,
                            e.printlines, e.sizex)
    IN IF g.start = 0
       THEN GatherForward(e.histbuf, 0, <<>>, e.sizex, 0,
                          e.printlines, e.sizex).buf
       ELSE Reverse(g.buf)

\* Editor::writehistory PageDown as it would be if a short page did not end
\* the scrollback.
writehistory_PageDown_stays(e) ==
    LET e1 == [e EXCEPT !.printx = 0, !.printy = 0,
                        !.hb_start_index = e.hb_end_index]
        g == GatherForward(e.histbuf, e1.hb_start_index, <<>>, e.sizex, 0,
                           e.printlines, e.sizex)
    IN writebuf([e1 EXCEPT !.hb_end_index = e1.hb_start_index + Len(g.buf)],
                writehistory_PageDown_page(e))

\* Editor::writehistory
writehistory_PageDown(e) ==
    LET e1 == [e EXCEPT !.printx = 0, !.printy = 0,
                        !.hb_start_index = e.hb_end_index]
        g == GatherForward(e.histbuf, e1.hb_start_index, <<>>, e.sizex, 0,
                           e.printlines, e.sizex)
        e2 == [e1 EXCEPT !.hb_end_index = e1.hb_start_index + Len(g.buf)]
    IN IF g.num_lines < e.printlines
       THEN [writebuf(e2, writehistory_PageDown_page(e))
                EXCEPT !.hb_active = FALSE]
       ELSE writebuf(e2, writehistory_PageDown_page(e))

writehistory_PageUp(e) ==
    LET e1 == [e EXCEPT !.printx = 0, !.printy = 0,
                        !.hb_end_index = e.hb_start_index]
        g == GatherBackward(e.histbuf, e1.hb_start_index, <<>>, e.sizex, 0,
                            e.printlines, e.sizex)
        e2 == [e1 EXCEPT !.hb_start_index = g.start]
        page == writehistory_PageUp_page(e)
    IN IF g.start = 0
       THEN writebuf([e2 EXCEPT !.hb_end_index = Len(page)], page)
       ELSE writebuf(e2, page)

writehistory_Quit(e) ==
    LET e1 == [e EXCEPT !.printx = 0, !.printy = 0]
    IN [writebuf(e1, get_recent(e.histbuf, e.printlines * e.sizex))
           EXCEPT !.hb_active = FALSE]

\* Editor::writeout as it would be if it kept only what it renders.
writeout_live_only(e, buf) ==
    IF ~e.hb_active THEN writebuf([e EXCEPT !.histbuf = e.histbuf \o buf], buf)
    ELSE e

\* Editor::writeout
writeout(e, buf) ==
    LET e1 == [e EXCEPT !.histbuf = e.histbuf \o buf]
    IN IF ~e.hb_active THEN writebuf(e1, buf) ELSE e1

(***************************************************************************)
(* Vertical motion and the split.                                          *)
(***************************************************************************)
\* Editor::move_end
move_end(e) == redrawline(setpos([e EXCEPT !.lidx = len(e)]))

\* Editor::move_down, after its early return: the virtual bottom line, the
\* new cury, lineidx and scrollstart.  u16 sums and differences that do not
\* fit panic in a build with overflow checks and wrap otherwise; so do the
\* usize differences.
MoveDownScroll(e, num, move_to_beginning) ==
    LET nlines == Len(e.lines)
        first == e.scrollstart <= SatSub(e.sizey + 2, AsU16(e.cury + e.printlines))
        rows == IF first THEN AsU16(e.cury - e.printlines)
                ELSE AsU16(e.sizey - e.printlines)
        virtidx == IF first THEN rows - 2 ELSE e.scrollstart + rows - 3
        overflow1 == \/ ~FitsU16(e.cury + e.printlines)
                     \/ first /\ ~FitsU16(e.cury - e.printlines)
                     \/ ~first /\ ~FitsU16(e.sizey - e.printlines)
                     \/ virtidx < 0
                     \/ ~FitsU16(e.cury + num)
        cury1 == AsU16(e.cury + num)
        lineidx1 == Min(e.lineidx + num, SatSub(nlines, 1))
        sum == virtidx + num + e.printlines + 3
        scrollstart1 ==
            IF cury1 > e.sizey - 1 \/ lineidx1 + 1 = nlines
            THEN IF num > 10
                 THEN Min(e.scrollstart + num, lineidx1)
                 ELSE IF sum < 0 THEN lineidx1
                      ELSE Min(SatSub(sum, e.sizey), lineidx1)
            ELSE e.scrollstart
        row == AsU16(lineidx1 - scrollstart1)
        overflow2 == \/ lineidx1 < scrollstart1
                     \/ ~FitsU16(row + e.printlines + 2)
        cury2 == Min(Min(cury1, AsU16(row + e.printlines + 2)), e.sizey - 1)
        e1 == [e EXCEPT !.cury = cury2, !.lineidx = lineidx1,
                        !.scrollstart = scrollstart1]
    IN IF e.debug /\ (overflow1 \/ overflow2) THEN Panic(e)
       ELSE IF move_to_beginning
            THEN redraw([e1 EXCEPT !.lidx = 0, !.lofs = 0, !.curx = 0])
            ELSE redraw(matchpos(e1))

\* Editor::move_down
move_down(e, num, move_to_beginning) ==
    IF e.panic THEN e
    ELSE LET e0 == [e EXCEPT !.loose_cursor = TRUE]
         IN IF e.lineidx + 1 = Len(e.lines) /\ e.scrollstart + 1 = Len(e.lines)
            THEN redrawline(setpos([e0 EXCEPT !.lidx = len(e0)]))
            ELSE MoveDownScroll(e0, num, move_to_beginning)

\* move_up as it would be if the view scrolled only from the top row of the
\* edit pane, and not whenever the cursor line rises above scrollstart.
move_up_scroll_at_top_only(e, num, move_to_end) ==
    IF e.panic THEN e
    ELSE LET e0 == [e EXCEPT !.loose_cursor = TRUE]
             lineidx1 == SatSub(e.lineidx, num)
             scrollstart1 ==
                 IF e.cury = AsU16(e.printlines + 2)
                 THEN SatSub(e.scrollstart, num)
                 ELSE e.scrollstart
             row == AsU16(lineidx1 - scrollstart1)
             overflow == \/ ~FitsU16(e.printlines + 2)
                         \/ lineidx1 < scrollstart1
                         \/ ~FitsU16(row + e.printlines + 2)
             e1 == [e0 EXCEPT !.lineidx = lineidx1, !.scrollstart = scrollstart1,
                              !.cury = AsU16(row + e.printlines + 2)]
         IN IF e.lineidx = 0 /\ e.scrollstart = 0
            THEN redrawline([e0 EXCEPT !.lofs = 0, !.lidx = 0, !.curx = 0])
            ELSE IF e.debug /\ overflow THEN Panic(e)
            ELSE IF lineidx1 >= Len(e.lines) THEN Panic(e)
            ELSE IF move_to_end
                 THEN redraw(matchpos([e1 EXCEPT !.lidx = len(e1)]))
                 ELSE redraw(matchpos(e1))

\* Editor::move_up
move_up(e, num, move_to_end) ==
    IF e.panic THEN e
    ELSE LET e0 == [e EXCEPT !.loose_cursor = TRUE]
             lineidx1 == SatSub(e.lineidx, num)
             scrollstart1 ==
                 IF e.cury = AsU16(e.printlines + 2) \/ lineidx1 < e.scrollstart
                 THEN SatSub(e.scrollstart, num)
                 ELSE e.scrollstart
             row == AsU16(lineidx1 - scrollstart1)
             overflow == \/ ~FitsU16(e.printlines + 2)
                         \/ lineidx1 < scrollstart1
                         \/ ~FitsU16(row + e.printlines + 2)
             e1 == [e0 EXCEPT !.lineidx = lineidx1, !.scrollstart = scrollstart1,
                              !.cury = AsU16(row + e.printlines + 2)]
         IN IF e.lineidx = 0 /\ e.scrollstart = 0
            THEN redrawline([e0 EXCEPT !.lofs = 0, !.lidx = 0, !.curx = 0])
            ELSE IF e.debug /\ overflow THEN Panic(e)
            ELSE IF lineidx1 >= Len(e.lines) THEN Panic(e)
            ELSE IF move_to_end
                 THEN redraw(matchpos([e1 EXCEPT !.lidx = len(e1)]))
                 ELSE redraw(matchpos(e1))

\* Editor::resize_split.  The loop that walks cury back onto the screen
\* takes lineidx with it; when it would take lineidx below 0 a build with
\* overflow checks panics there, and the wrapped lineidx of any other build
\* indexes past the lines in setpos.
resize_split(e, delta) ==
    IF e.panic THEN e
    ELSE LET pre == AsI16(e.printlines)
             hi == AsI16(e.sizey) - 8
             newprint == AsU16(Min(Max(AsI16(pre + delta), e.sizey \div 8),
                                   AsI16(hi)))
             new_delta == AsI16(AsI16(newprint) - pre)
             cury1 == AsU16(Max(AsI16(AsI16(e.cury) + new_delta),
                                AsI16(AsI16(newprint) + 2)))
             overflow == \/ ~FitsI16(pre + delta)
                         \/ ~FitsI16(hi)
                         \/ ~FitsI16(AsI16(newprint) - pre)
                         \/ ~FitsI16(AsI16(e.cury) + new_delta)
                         \/ ~FitsI16(AsI16(newprint) + 2)
             back == IF cury1 >= e.sizey THEN cury1 - (e.sizey - 1) ELSE 0
             e1 == [e EXCEPT !.printlines = newprint, !.cury = cury1 - back,
                             !.lineidx = e.lineidx - back]
         IN IF e.debug /\ overflow THEN Panic(e)
            ELSE IF back > e.lineidx THEN Panic(e)
            ELSE writebuf(setpos(e1), <<>>)

(***************************************************************************)
(* Editor::handle_event, one operator per key.  Each returns the editor    *)
(* after the call.                                                         *)
(***************************************************************************)
SetLine(e, s) == [e EXCEPT !.lines[e.lineidx + 1] = s]

RemoveAt(seq, k) == SubSeq(seq, 1, k - 1) \o SubSeq(seq, k + 1, Len(seq))

InsertAt(seq, k, x) == SubSeq(seq, 1, k - 1) \o <<x>> \o SubSeq(seq, k, Len(seq))

\* Editor::insert_charstr
insert_charstr(e, chs) ==
    LET e1 == IF e.lidx > len(e) THEN [e EXCEPT !.lidx = len(e), !.lofs = 0] ELSE e
        line == Line(e1)
        newline == Slice(line, 0, e1.lidx) \o chs \o Slice(line, e1.lidx, Len(line))
        e2 == [SetLine(e1, newline) EXCEPT
                  !.lidx = next_grapheme_idx_from_idx(newline, e1.lidx)]
    IN IF ~IsCharBoundary(line, e1.lidx) THEN Panic(e)
       ELSE IF ~WidthOk(e2) THEN Panic(e)
       ELSE redrawline([e2 EXCEPT !.curx = grapheme_width_lofs_to_lidx(e2)])

\* Ctrl-a, and Home
Key_Home(e) == setpos([e EXCEPT !.lidx = 0, !.lofs = 0])

\* Ctrl-e, and End
Key_End(e) == move_end(e)

\* Ctrl-l
Key_CtrlL(e) == redraw([e EXCEPT !.printx = 0, !.printy = 0])

\* Ctrl-u: String::drain(0..lidx) panics unless 0..lidx is a valid range.
Key_CtrlU(e) ==
    IF ~SliceOk(Line(e), 0, e.lidx) THEN Panic(e)
    ELSE redraw(SetLine(e, Slice(Line(e), e.lidx, len(e))))

\* Ctrl-Down and Ctrl-Up
Key_CtrlDown(e) == resize_split(e, 3)

Key_CtrlUp(e) == resize_split(e, -3)

\* Ctrl-End
Key_CtrlEnd(e) ==
    LET e1 == [e EXCEPT !.lineidx = SatSub(Len(e.lines), 1),
                        !.scrollstart = SatSub(Len(e.lines), 1),
                        !.cury = AsU16(e.printlines + 2)]
    IN IF e.debug /\ ~FitsU16(e.printlines + 2) THEN Panic(e)
       ELSE redraw(setpos([e1 EXCEPT !.lidx = len(e1)]))

\* Ctrl-Home
Key_CtrlHome(e) ==
    IF e.debug /\ ~FitsU16(e.printlines + 2) THEN Panic(e)
    ELSE redraw(setpos([e EXCEPT !.lineidx = 0, !.scrollstart = 0,
                                 !.cury = AsU16(e.printlines + 2), !.lidx = 0]))

\* The two loops of Ctrl-Left: back over whitespace, then back over a word.
RECURSIVE SkipBack(_, _, _)
SkipBack(s, idx, white) ==
    IF idx > 0 /\ is_whitespace(prev_char(s, idx)) = white
    THEN SkipBack(s, prev_grapheme_idx_from_idx(s, idx), white)
    ELSE idx

\* The two loops of Ctrl-Right: forward over a word, then over whitespace.
RECURSIVE SkipForward(_, _, _)
SkipForward(s, idx, white) ==
    IF idx < Len(s) /\ is_whitespace(ch(s, idx)) = white
    THEN SkipForward(s, next_grapheme_idx_from_idx(s, idx), white)
    ELSE idx

\* Ctrl-Left
Key_CtrlLeft(e) ==
    LET up == move_up(e, 1, TRUE)
        e1 == IF e.lidx = 0
              THEN IF up.panic THEN up ELSE [up EXCEPT !.lidx = len(up)]
              ELSE e
    IN IF e1.panic THEN e1
       ELSE setpos([e1 EXCEPT !.lidx =
                SkipBack(Line(e1), SkipBack(Line(e1), e1.lidx, TRUE), FALSE)])

\* Ctrl-Right
Key_CtrlRight(e) ==
    LET e1 == [e EXCEPT !.lidx = SkipForward(Line(e), e.lidx, FALSE)]
        down == move_down(e1, 1, TRUE)
        e2 == IF e1.lidx = len(e1)
              THEN IF down.panic THEN down ELSE [down EXCEPT !.lidx = 0]
              ELSE e1
    IN IF e2.panic THEN e2
       ELSE setpos([e2 EXCEPT !.lidx = SkipForward(Line(e2), e2.lidx, TRUE)])

\* Ctrl-PageDown
Key_CtrlPageDown(e) == writehistory_PageDown(e)

\* Ctrl-PageUp
Key_CtrlPageUp(e) ==
    IF ~e.hb_active
    THEN writehistory_PageUp([e EXCEPT !.hb_active = TRUE,
                                       !.hb_start_index = get_last_index(e.histbuf),
                                       !.hb_end_index = get_last_index(e.histbuf)])
    ELSE IF e.hb_start_index = 0 THEN e
    ELSE writehistory_PageUp(e)

\* Backspace
Key_Backspace(e) ==
    IF e.lidx = 0
    THEN IF e.lineidx = 0 THEN e
         ELSE LET prev == e.lines[e.lineidx]
                  joined == [e.lines EXCEPT ![e.lineidx] = prev \o Line(e)]
                  e1 == [e EXCEPT !.lidx = Len(prev),
                                  !.lines = RemoveAt(joined, e.lineidx + 1)]
              IN redraw(setpos(move_up(e1, 1, FALSE)))
    ELSE LET e1 == IF e.lidx > len(e)
                   THEN [e EXCEPT !.lidx = len(e), !.lofs = 0] ELSE e
             line == Line(e1)
             start == prev_grapheme_idx_from_idx(line, e1.lidx)
             e2 == [SetLine(e1, Slice(line, 0, start) \o Slice(line, e1.lidx, Len(line)))
                       EXCEPT !.lidx = start]
         IN IF ~WidthOk(e1) THEN Panic(e)
            ELSE IF ~SliceOk(line, start, e1.lidx) THEN Panic(e)
            ELSE IF ~WidthOk(e2) THEN Panic(e)
            ELSE LET gwid == SatSub(grapheme_width_lofs_to_lidx(e1),
                                    grapheme_width_lofs_to_lidx(e2))
                 IN redrawline([e2 EXCEPT !.curx = SatSub(e1.curx, gwid)])

\* Char(c)
Key_Char(e, c) == insert_charstr(e, c)

\* Tab
Key_Tab(e) == insert_charstr(e, <<"\t">>)

\* Delete
Key_Delete(e) ==
    IF e.lidx = len(e)
    THEN IF e.lineidx + 1 < Len(e.lines)
         THEN LET joined == SetLine(e, Line(e) \o e.lines[e.lineidx + 2])
              IN redraw([joined EXCEPT !.lines = RemoveAt(joined.lines, e.lineidx + 2)])
         ELSE e
    ELSE LET end == next_grapheme_idx_from_idx(Line(e), e.lidx)
         IN IF ~SliceOk(Line(e), e.lidx, end) THEN Panic(e)
            ELSE redrawline(SetLine(e, Slice(Line(e), 0, e.lidx)
                                       \o Slice(Line(e), end, len(e))))

\* Down
Key_Down(e) == redraw(move_down(e, 1, FALSE))

\* Esc
Key_Esc(e) == writehistory_Quit(e)

\* Enter
Key_Enter(e) ==
    LET e1 == IF e.lidx > len(e) THEN [e EXCEPT !.lidx = len(e)] ELSE e
        line == Line(e1)
        split == InsertAt([e1.lines EXCEPT ![e1.lineidx + 1] = Slice(line, 0, e1.lidx)],
                          e1.lineidx + 2, Slice(line, e1.lidx, Len(line)))
    IN IF ~IsCharBoundary(line, e1.lidx) THEN Panic(e)
       ELSE redraw(move_down([e1 EXCEPT !.lines = split], 1, TRUE))

\* Left
Key_Left(e) ==
    IF e.lidx = 0
    THEN IF e.lineidx = 0 THEN e
         ELSE LET up == move_up(e, 1, TRUE)
              IN IF up.panic THEN up ELSE setpos([up EXCEPT !.lidx = len(up)])
    ELSE setpos([e EXCEPT !.lidx = prev_grapheme_idx_from_idx(Line(e), e.lidx)])

\* Right
Key_Right(e) ==
    IF e.lidx >= len(e)
    THEN IF e.lineidx + 1 = Len(e.lines) THEN e
         ELSE LET down == move_down(e, 1, TRUE)
              IN IF down.panic THEN down ELSE setpos([down EXCEPT !.lidx = 0])
    ELSE setpos([e EXCEPT !.lidx = next_grapheme_idx_from_idx(Line(e), e.lidx)])

\* PageDown and PageUp move by sizey - printlines - 2 lines, computed in u16.
Key_PageDown(e) ==
    IF e.debug /\ ~FitsU16(e.sizey - e.printlines - 2) THEN Panic(e)
    ELSE move_down(e, AsU16(e.sizey - e.printlines - 2), FALSE)

Key_PageUp(e) ==
    IF e.debug /\ ~FitsU16(e.sizey - e.printlines - 2) THEN Panic(e)
    ELSE move_up(e, AsU16(e.sizey - e.printlines - 2), FALSE)

\* Up
Key_Up(e) == move_up(e, 1, FALSE)

\* Event::Resize(x, y).  curp is (printlines / sizey).max(0.9).min(0.1), which
\* is 0.1 whatever the quotient, so (curp * y) as i16 is y / 10 rounded down.
Event_Resize(e, x, y) ==
    LET delta == (y \div 10) - AsI16(e.printlines)
    IN IF e.debug /\ ~FitsI16(delta) THEN Panic(e)
       ELSE resize_split([e EXCEPT !.sizex = x, !.sizey = y], AsI16(delta))

\* Sizes of Event::Resize(x, y) that leave room for the split to keep its
\* proportion: the bounds y / 8 and y - 8 of printlines are apart.
ProportionSizes == {<<80, 24>>, <<6, 12>>, <<4, 9>>}

\* The events of crossterm that the model names: the keys with a handler,
\* one control key and one plain key without a handler, a key release, and
\* an event that is neither a key nor a resize.
ControlExitKeys == {"Ctrl-c", "Ctrl-d", "Ctrl-n", "Ctrl-q", "Ctrl-s", "Ctrl-x"}

Events ==
    ControlExitKeys \cup
    {"Ctrl-a", "Ctrl-e", "Ctrl-l", "Ctrl-u", "Ctrl-Down", "Ctrl-End",
     "Ctrl-Home", "Ctrl-Left", "Ctrl-Right", "Ctrl-PageDown", "Ctrl-PageUp",
     "Ctrl-Up", "Backspace", "Char a", "Char U+0301", "Delete", "Down", "End",
     "Esc", "Enter", "Home", "Left", "PageDown", "PageUp", "Right", "Tab",
     "Up", "Resize 4x9", "Resize 4x6", "Ctrl-k", "F1", "Release a",
     "FocusGained"}

\* What handle_event returns with: Ok(Some(event)), or Ok(None) after the
\* handler of the key has run.
Returned(e, event) == [ed |-> e, ret |-> event]

\* Ctrl-n as it would be if it returned the CtrlN of EditorEvent.
Key_CtrlN_own_event(e) == Returned(e, "CtrlN")

\* Ctrl-n returns the event of Ctrl-s.
Key_CtrlN(e) == Returned(e, "CtrlS")

\* Editor::handle_event: the editor it leaves and the value it returns.
handle_event(e, event) ==
    CASE event = "Ctrl-a" -> Returned(Key_Home(e), None)
      [] event = "Ctrl-c" -> Returned(e, "CtrlC")
      [] event = "Ctrl-d" -> Returned(e, "CtrlD")
      [] event = "Ctrl-e" -> Returned(Key_End(e), None)
      [] event = "Ctrl-l" -> Returned(Key_CtrlL(e), None)
      [] event = "Ctrl-n" -> Key_CtrlN(e)
      [] event = "Ctrl-q" -> Returned(e, "CtrlQ")
      [] event = "Ctrl-s" -> Returned(e, "CtrlS")
      [] event = "Ctrl-x" -> Returned(e, "CtrlX")
      [] event = "Ctrl-u" -> Returned(Key_CtrlU(e), None)
      [] event = "Ctrl-Down" -> Returned(Key_CtrlDown(e), None)
      [] event = "Ctrl-End" -> Returned(Key_CtrlEnd(e), None)
      [] event = "Ctrl-Home" -> Returned(Key_CtrlHome(e), None)
      [] event = "Ctrl-Left" -> Returned(Key_CtrlLeft(e), None)
      [] event = "Ctrl-Right" -> Returned(Key_CtrlRight(e), None)
      [] event = "Ctrl-PageDown" -> Returned(Key_CtrlPageDown(e), None)
      [] event = "Ctrl-PageUp" -> Returned(Key_CtrlPageUp(e), None)
      [] event = "Ctrl-Up" -> Returned(Key_CtrlUp(e), None)
      [] event = "Backspace" -> Returned(Key_Backspace(e), None)
      [] event = "Char a" -> Returned(Key_Char(e, <<"a">>), None)
      [] event = "Char U+0301" -> Returned(Key_Char(e, <<"M", "c">>), None)
      [] event = "Delete" -> Returned(Key_Delete(e), None)
      [] event = "Down" -> Returned(Key_Down(e), None)
      [] event = "End" -> Returned(Key_End(e), None)
      [] event = "Esc" -> Returned(Key_Esc(e), None)
      [] event = "Enter" -> Returned(Key_Enter(e), None)
      [] event = "Home" -> Returned(Key_Home(e), None)
      [] event = "Left" -> Returned(Key_Left(e), None)
      [] event = "PageDown" -> Returned(Key_PageDown(e), None)
      [] event = "PageUp" -> Returned(Key_PageUp(e), None)
      [] event = "Right" -> Returned(Key_Right(e), None)
      [] event = "Tab" -> Returned(Key_Tab(e), None)
      [] event = "Up" -> Returned(Key_Up(e), None)
      [] event = "Resize 4x9" -> Returned(Event_Resize(e, 4, 9), None)
      [] event = "Resize 4x6" -> Returned(Event_Resize(e, 4, 6), None)
      [] OTHER -> Returned(e, None)

\* Editor::text
RECURSIVE JoinLines(_)
JoinLines(ls) ==
    IF Len(ls) = 0 THEN <<>>
    ELSE IF Len(ls) = 1 THEN ls[1]
    ELSE ls[1] \o <<"\n">> \o JoinLines(Tail(ls))

\* Editor::text as it would be if every line ended in a newline.
text_newline_terminated(e) == JoinLines(e.lines) \o <<"\n">>

text(e) == JoinLines(e.lines)

(***************************************************************************)
(* Construction.                                                           *)
(***************************************************************************)
\* str::split("\n"): the pieces between the newlines, at least one.
RECURSIVE SplitLines(_, _)
SplitLines(content, cur) ==
    IF content = <<>> THEN <<cur>>
    ELSE IF Head(content) = "\n" THEN <<cur>> \o SplitLines(Tail(content), <<>>)
    ELSE SplitLines(Tail(content), Append(cur, Head(content)))

\* Editor::new.  print_height is given in tenths; terminal::size() returns
\* size and cursor::position() the row the terminal's cursor is on.
Editor_new(initial_content, print_height, tabstop, size, row) ==
    LET newprintlines == (size[2] * Min(Max(print_height, 1), 9)) \div 10
    IN [curx |-> 0,
        cury |-> newprintlines + 2,
        hb_active |-> FALSE,
        hb_start_index |-> 0,
        hb_end_index |-> 0,
        histbuf |-> <<>>,
        lidx |-> 0,
        lines |-> SplitLines(initial_content, <<>>),
        lineidx |-> 0,
        lofs |-> 0,
        loose_cursor |-> FALSE,
        printlines |-> newprintlines,
        printx |-> 0,
        printy |-> row + 1,
        scrollstart |-> 0,
        sizex |-> size[1],
        sizey |-> size[2],
        tabstop |-> tabstop,
        debug |-> FALSE,
        panic |-> FALSE]

(***************************************************************************)
(* The output router.  AsyncEditor::new makes a channel (crate thingbuf,    *)
(* mpsc) and keeps its Receiver; the Sender goes into the one SharedStdout, *)
(* which cannot be cloned.  The record r holds                             *)
(*   chan   the messages sent and not yet received, oldest first           *)
(*   buf    SharedStdout.buf, the staging buffer                           *)
(*   tx     the SharedStdout has not been dropped                          *)
(*   rx     the AsyncEditor has not been dropped                           *)
(*   pc     what the owner of the AsyncEditor is in: "idle" outside a      *)
(*          call, "async_editor" or "flush" inside one                     *)
(*   ret    what the last call of async_editor or flush returned           *)
(*   wret   what the last call of SharedStdout::write returned             *)
(* and, to state the claims, the number of write calls made (calls), the   *)
(* bytes of the calls that returned Ok (written), the bytes sent and the   *)
(* bytes passed to writeout (sent, received), and the number of bytes that *)
(* had been sent when flush was last called (mark) and whether the channel *)
(* held a message then (pending).                                          *)
(* A send is one step: there is one sender, so a slot reserved and not yet *)
(* released is a message sent a moment later.                              *)
(***************************************************************************)
CHANNEL_CAPACITY == 500

Router_new ==
    [chan |-> <<>>, buf |-> <<>>, tx |-> TRUE, rx |-> TRUE,
     pc |-> "idle", ret |-> None, wret |-> None,
     calls |-> 0, written |-> <<>>, sent |-> <<>>, received |-> <<>>,
     mark |-> 0, pending |-> FALSE]

\* SharedStdout::write as it would be if a full channel were reported before
\* a closed one.
write_full_first(r, bytes) ==
    LET staged == r.buf \o bytes
    IN IF Len(r.chan) >= CHANNEL_CAPACITY
       THEN [r EXCEPT !.buf = staged, !.wret = "WouldBlock"]
       ELSE IF ~r.rx THEN [r EXCEPT !.buf = staged, !.wret = "Other"]
       ELSE [r EXCEPT !.chan = Append(r.chan, staged), !.buf = <<>>,
                      !.wret = "Ok"]

\* SharedStdout::write as it would be if it sent without asking for room.
write_unbounded(r, bytes) ==
    LET staged == r.buf \o bytes
    IN IF ~r.rx THEN [r EXCEPT !.buf = staged, !.wret = "Other"]
       ELSE [r EXCEPT !.chan = Append(r.chan, staged), !.buf = <<>>,
                      !.wret = "Ok"]

\* SharedStdout::write.  Sender::try_send_ref fails with Closed once the
\* Receiver is dropped, else with Full while the channel holds its capacity.
write(r, bytes) ==
    LET staged == r.buf \o bytes
    IN IF ~r.rx THEN [r EXCEPT !.buf = staged, !.wret = "Other"]
       ELSE IF Len(r.chan) >= CHANNEL_CAPACITY
            THEN [r EXCEPT !.buf = staged, !.wret = "WouldBlock"]
            ELSE [r EXCEPT !.chan = Append(r.chan, staged), !.buf = <<>>,
                           !.wret = "Ok"]

\* The bytes of the producer's k-th call of write.
WriteBytes(k) == IF k % 2 = 0 THEN <<ToString(k), "\n">> ELSE <<ToString(k)>>

\* The bookkeeping of a call of write with bytes that took r to r1.
Called(r, r1, bytes) ==
    [r1 EXCEPT !.calls = r.calls + 1,
               !.written = IF r1.wret = "Ok" THEN r.written \o bytes
                           ELSE r.written,
               !.sent = IF Len(r1.chan) > Len(r.chan)
                        THEN r.sent \o r1.chan[Len(r1.chan)] ELSE r.sent]

\* Receiver::recv_ref and try_recv_ref take the oldest message.
Taken(r) ==
    [r EXCEPT !.chan = Tail(r.chan), !.received = r.received \o Head(r.chan)]

(***************************************************************************)
(* The inputs the model draws from.                                        *)
(***************************************************************************)
\* Initial contents: a text taller than the edit pane, and a text with a
\* tab, a wide character and a combining mark that is wider than the screen.
TallText == <<"a", "\n", "\n", "\n", "\n", "\n", "\n", "\n", "a", "a">>
WideText == <<"a", "\t", "W", "c", "c", " ", "a", "\n", "a", "M", "c">>
Contents == {TallText, WideText}

\* Terminal sizes <<columns, rows>>: at start, and after a resize.
InitSizes == {<<6, 12>>}
ResizeSizes == {<<4, 9>>, <<4, 6>>}

\* print_height in tenths, and the row the terminal's cursor is on at start.
PrintHeights == {3, 9}
StartRows == {0}
TabStops == {4}

\* The characters a Char key inserts, as UTF-8.
Chars == {<<"a">>, <<"M", "c">>}

\* Initial contents for the round trip of Editor::new and Editor::text: the
\* two texts, the empty text, and texts that start or end with a newline.
RoundTripContents ==
    Contents \cup {<<>>, <<"\n">>, <<"a", "\n">>, <<"\n", "a">>, <<"\n", "\n">>,
                   <<"a", "\n", "\n", "a">>}

\* The byte strings a producer writes.
Messages == {<<"x">>, <<"x", "\n">>, <<"x", "x", "x", "x", "x", "x", "x">>}

Init ==
    /\ \E content \in Contents, ph \in PrintHeights, ts \in TabStops,
          size \in InitSizes, row \in StartRows :
             ed = Editor_new(content, ph, ts, size, row)
    /\ edits = 0
    /\ writes = 0
    /\ router = Router_new

(***************************************************************************)
(* Actions: the events Editor::handle_event is called with, and the        *)
(* messages Editor::writeout is called with.  A panicked process takes no  *)
(* further step.                                                           *)
(*                                                                         *)
(* The build decides what an integer overflow does.  A handler is          *)
(* evaluated with overflow checks; if it panics it is evaluated without    *)
(* them too, and the step may end either way.  A call that overflows       *)
(* nowhere ends the same in every build.                                   *)
(***************************************************************************)
Checked(e) == [e EXCEPT !.debug = TRUE]

Unchecked(e) == [e EXCEPT !.debug = FALSE]

Builds(checked, unchecked) ==
    IF checked.panic THEN {Unchecked(checked), unchecked}
    ELSE {Unchecked(checked)}

\* The keys and events that leave the text as it is.
CtrlA ==
    /\ ~ed.panic
    /\ ed' \in Builds(Key_Home(Checked(ed)), Key_Home(ed))
    /\ UNCHANGED <<edits, writes, router>>

CtrlE ==
    /\ ~ed.panic
    /\ ed' \in Builds(Key_End(Checked(ed)), Key_End(ed))
    /\ UNCHANGED <<edits, writes, router>>

CtrlL ==
    /\ ~ed.panic
    /\ ed' \in Builds(Key_CtrlL(Checked(ed)), Key_CtrlL(ed))
    /\ UNCHANGED <<edits, writes, router>>

CtrlDown ==
    /\ ~ed.panic
    /\ ed' \in Builds(Key_CtrlDown(Checked(ed)), Key_CtrlDown(ed))
    /\ UNCHANGED <<edits, writes, router>>

CtrlUp ==
    /\ ~ed.panic
    /\ ed' \in Builds(Key_CtrlUp(Checked(ed)), Key_CtrlUp(ed))
    /\ UNCHANGED <<edits, writes, router>>

CtrlEnd ==
    /\ ~ed.panic
    /\ ed' \in Builds(Key_CtrlEnd(Checked(ed)), Key_CtrlEnd(ed))
    /\ UNCHANGED <<edits, writes, router>>

CtrlHome ==
    /\ ~ed.panic
    /\ ed' \in Builds(Key_CtrlHome(Checked(ed)), Key_CtrlHome(ed))
    /\ UNCHANGED <<edits, writes, router>>

CtrlLeft ==
    /\ ~ed.panic
    /\ ed' \in Builds(Key_CtrlLeft(Checked(ed)), Key_CtrlLeft(ed))
    /\ UNCHANGED <<edits, writes, router>>

CtrlRight ==
    /\ ~ed.panic
    /\ ed' \in Builds(Key_CtrlRight(Checked(ed)), Key_CtrlRight(ed))
    /\ UNCHANGED <<edits, writes, router>>

CtrlPageDown ==
    /\ ~ed.panic
    /\ ed' \in Builds(Key_CtrlPageDown(Checked(ed)), Key_CtrlPageDown(ed))
    /\ UNCHANGED <<edits, writes, router>>

CtrlPageUp ==
    /\ ~ed.panic
    /\ ed' \in Builds(Key_CtrlPageUp(Checked(ed)), Key_CtrlPageUp(ed))
    /\ UNCHANGED <<edits, writes, router>>

Down ==
    /\ ~ed.panic
    /\ ed' \in Builds(Key_Down(Checked(ed)), Key_Down(ed))
    /\ UNCHANGED <<edits, writes, router>>

End ==
    /\ ~ed.panic
    /\ ed' \in Builds(Key_End(Checked(ed)), Key_End(ed))
    /\ UNCHANGED <<edits, writes, router>>

Esc ==
    /\ ~ed.panic
    /\ ed' \in Builds(Key_Esc(Checked(ed)), Key_Esc(ed))
    /\ UNCHANGED <<edits, writes, router>>

Home ==
    /\ ~ed.panic
    /\ ed' \in Builds(Key_Home(Checked(ed)), Key_Home(ed))
    /\ UNCHANGED <<edits, writes, router>>

Left ==
    /\ ~ed.panic
    /\ ed' \in Builds(Key_Left(Checked(ed)), Key_Left(ed))
    /\ UNCHANGED <<edits, writes, router>>

PageDown ==
    /\ ~ed.panic
    /\ ed' \in Builds(Key_PageDown(Checked(ed)), Key_PageDown(ed))
    /\ UNCHANGED <<edits, writes, router>>

PageUp ==
    /\ ~ed.panic
    /\ ed' \in Builds(Key_PageUp(Checked(ed)), Key_PageUp(ed))
    /\ UNCHANGED <<edits, writes, router>>

Right ==
    /\ ~ed.panic
    /\ ed' \in Builds(Key_Right(Checked(ed)), Key_Right(ed))
    /\ UNCHANGED <<edits, writes, router>>

Up ==
    /\ ~ed.panic
    /\ ed' \in Builds(Key_Up(Checked(ed)), Key_Up(ed))
    /\ UNCHANGED <<edits, writes, router>>

\* Ctrl-c, Ctrl-d, Ctrl-n, Ctrl-q, Ctrl-s, Ctrl-x return an EditorEvent, and
\* any other event falls through: the editor is left as it is.
CtrlExit ==
    /\ ~ed.panic
    /\ UNCHANGED <<ed, edits, writes, router>>

Resize ==
    \E size \in ResizeSizes :
        /\ ~ed.panic
        /\ ed' \in Builds(Event_Resize(Checked(ed), size[1], size[2]),
                         Event_Resize(ed, size[1], size[2]))
        /\ UNCHANGED <<edits, writes, router>>

\* The keys that edit the text.
CtrlU ==
    /\ ~ed.panic
    /\ edits < MaxEdits
    /\ ed' \in Builds(Key_CtrlU(Checked(ed)), Key_CtrlU(ed))
    /\ edits' = edits + 1
    /\ UNCHANGED <<writes, router>>

Backspace ==
    /\ ~ed.panic
    /\ edits < MaxEdits
    /\ ed' \in Builds(Key_Backspace(Checked(ed)), Key_Backspace(ed))
    /\ edits' = edits + 1
    /\ UNCHANGED <<writes, router>>

Tab ==
    /\ ~ed.panic
    /\ edits < MaxEdits
    /\ ed' \in Builds(Key_Tab(Checked(ed)), Key_Tab(ed))
    /\ edits' = edits + 1
    /\ UNCHANGED <<writes, router>>

Delete ==
    /\ ~ed.panic
    /\ edits < MaxEdits
    /\ ed' \in Builds(Key_Delete(Checked(ed)), Key_Delete(ed))
    /\ edits' = edits + 1
    /\ UNCHANGED <<writes, router>>

Enter ==
    /\ ~ed.panic
    /\ edits < MaxEdits
    /\ ed' \in Builds(Key_Enter(Checked(ed)), Key_Enter(ed))
    /\ edits' = edits + 1
    /\ UNCHANGED <<writes, router>>

Char ==
    \E c \in Chars :
        /\ ~ed.panic
        /\ edits < MaxEdits
        /\ ed' \in Builds(Key_Char(Checked(ed), c), Key_Char(ed, c))
        /\ edits' = edits + 1
        /\ UNCHANGED <<writes, router>>

\* AsyncEditor::async_editor and AsyncEditor::flush pass a received message
\* to Editor::writeout.
WriteOut ==
    \E buf \in Messages :
        /\ ~ed.panic
        /\ writes < MaxWrites
        /\ ed' \in Builds(writeout(Checked(ed), buf), writeout(ed, buf))
        /\ writes' = writes + 1
        /\ UNCHANGED <<edits, router>>

\* Every event of Editor::handle_event.  The history stays empty: writeout
\* and the print cursor are explored by SpecOut.  No handler of an editing or
\* motion key reads printx, printy, histbuf or an hb_ field.
Next ==
    \/ CtrlA \/ CtrlE \/ CtrlL \/ CtrlU \/ CtrlDown \/ CtrlUp \/ CtrlEnd
    \/ CtrlHome \/ CtrlLeft \/ CtrlRight \/ CtrlPageDown \/ CtrlPageUp
    \/ CtrlExit \/ Backspace \/ Char \/ Tab \/ Delete \/ Down \/ End \/ Esc
    \/ Enter \/ Home \/ Left \/ PageDown \/ PageUp \/ Right \/ Up \/ Resize

Spec == Init /\ [][Next]_vars

\* Output: the messages written, the keys that move the print cursor or page
\* through the history, and the events that resize the panes, on one text.
OutSizes == {<<6, 12>>, <<4, 9>>}

InitOut ==
    /\ \E ph \in PrintHeights, ts \in TabStops, size \in OutSizes :
          \E row \in {0, size[2] - 1} :
              ed = Editor_new(<<"a">>, ph, ts, size, row)
    /\ edits = 0
    /\ writes = 0
    /\ router = Router_new

NextOut ==
    \/ WriteOut \/ CtrlL \/ CtrlPageDown \/ CtrlPageUp \/ Esc
    \/ CtrlDown \/ CtrlUp \/ Resize

SpecOut == InitOut /\ [][NextOut]_vars

\* Paging down out of the scrollback: after any of the above has left the
\* scrollback on, no more output arrives and the user presses Ctrl-PageDown
\* again and again.  router.mark keeps the hb_end_index the paging began at.
StartPaging ==
    /\ ~ed.panic
    /\ ed.hb_active
    /\ router.pc = "idle"
    /\ router' = [router EXCEPT !.pc = "paging", !.mark = ed.hb_end_index]
    /\ UNCHANGED <<ed, edits, writes>>

NextPage ==
    \/ (router.pc = "idle" /\ NextOut)
    \/ StartPaging
    \/ (router.pc = "paging" /\ CtrlPageDown)

\* The user keeps pressing: while the scrollback is on, another press of
\* Ctrl-PageDown is handled.
SpecPage ==
    /\ InitOut /\ [][NextPage]_vars
    /\ \/ []<>(router.pc # "paging" \/ ed.panic \/ ~ed.hb_active)
       \/ []<><<router.pc = "paging" /\ CtrlPageDown>>_vars

(***************************************************************************)
(* The producer, the channel and the owner of the AsyncEditor.  The        *)
(* producer's k-th call of write passes WriteBytes(k).  The owner calls    *)
(* async_editor and flush from outside any call, and may drop the          *)
(* AsyncEditor there; async_editor takes, in any order, the events and the *)
(* messages that are ready.                                                *)
(***************************************************************************)
MaxCalls == 3

\* The write calls a producer has made when it has run ahead of the editor.
Ahead == 499

\* The bytes of the first n calls of write, in order: two calls make three
\* bytes.
BytesOfCalls(n) ==
    [i \in 1..(n + n \div 2) |->
        CASE (i - 1) % 3 = 0 -> ToString(2 * ((i - 1) \div 3) + 1)
          [] (i - 1) % 3 = 1 -> ToString(2 * ((i - 1) \div 3) + 2)
          [] OTHER -> "\n"]

\* The router after n calls of write that all returned Ok, nothing received.
RouterAfter(n) ==
    [Router_new EXCEPT !.chan = [k \in 1..n |-> WriteBytes(k)], !.calls = n,
                       !.wret = IF n > 0 THEN "Ok" ELSE None,
                       !.written = BytesOfCalls(n), !.sent = BytesOfCalls(n)]

\* The events async_editor is given here: a key that returns an event and
\* an event without a handler; and the keys that enter and leave scrollback.
LoopEvents == {"Ctrl-c", "F1"}
ScrollKeys == {"Ctrl-PageUp", "Esc"}

InitChan ==
    /\ ed = Editor_new(<<"a">>, 3, 4, <<6, 12>>, 0)
    /\ edits = 0
    /\ writes = 0
    /\ router = RouterAfter(0)

InitAhead ==
    /\ ed = Editor_new(<<"a">>, 3, 4, <<6, 12>>, 0)
    /\ edits = 0
    /\ writes = 0
    /\ router = RouterAfter(Ahead)

\* SharedStdout::write
SinkWrite ==
    /\ router.tx
    /\ writes < MaxCalls
    /\ LET bytes == WriteBytes(router.calls + 1)
       IN router' = Called(router, write(router, bytes), bytes)
    /\ writes' = writes + 1
    /\ UNCHANGED <<ed, edits>>

\* The SharedStdout is dropped, and its Sender with it.
SinkDrop ==
    /\ router.tx
    /\ router' = [router EXCEPT !.tx = FALSE]
    /\ UNCHANGED <<ed, edits, writes>>

\* The AsyncEditor is dropped, and its Receiver with it.
EditorDrop ==
    /\ ~ed.panic
    /\ router.rx
    /\ router.pc = "idle"
    /\ router' = [router EXCEPT !.rx = FALSE]
    /\ UNCHANGED <<ed, edits, writes>>

\* AsyncEditor::async_editor is called.
AsyncCall ==
    /\ ~ed.panic
    /\ router.rx
    /\ router.pc = "idle"
    /\ router' = [router EXCEPT !.pc = "async_editor", !.ret = None]
    /\ UNCHANGED <<ed, edits, writes>>

\* lib.rs 170-183: an event goes to handle_event; async_editor returns the
\* event that handle_event returns, and loops when it returns none.
AsyncEvent ==
    \E event \in LoopEvents :
        /\ ~ed.panic
        /\ router.pc = "async_editor"
        /\ ed' \in Builds(handle_event(Checked(ed), event).ed,
                         handle_event(ed, event).ed)
        /\ router' = IF handle_event(ed, event).ret = None THEN router
                     ELSE [router EXCEPT !.pc = "idle",
                                         !.ret = handle_event(ed, event).ret]
        /\ UNCHANGED <<edits, writes>>

AsyncScrollKey ==
    \E event \in ScrollKeys :
        /\ ~ed.panic
        /\ router.pc = "async_editor"
        /\ ed' \in Builds(handle_event(Checked(ed), event).ed,
                         handle_event(ed, event).ed)
        /\ UNCHANGED <<edits, writes, router>>

\* lib.rs 184-188: a message goes to writeout.
AsyncReceive ==
    /\ ~ed.panic
    /\ router.pc = "async_editor"
    /\ router.chan # <<>>
    /\ ed' \in Builds(writeout(Checked(ed), Head(router.chan)),
                     writeout(ed, Head(router.chan)))
    /\ router' = Taken(router)
    /\ UNCHANGED <<edits, writes>>

\* async_editor as it would be if it returned as soon as the Sender is
\* dropped, with messages still in the channel.
AsyncClosed_undrained ==
    /\ ~ed.panic
    /\ router.pc = "async_editor"
    /\ ~router.tx
    /\ router' = [router EXCEPT !.pc = "idle", !.ret = "SharedStdoutClosed"]
    /\ UNCHANGED <<ed, edits, writes>>

\* lib.rs 189: recv_ref gives None once the Sender is dropped and the
\* channel empty.
AsyncClosed ==
    /\ ~ed.panic
    /\ router.pc = "async_editor"
    /\ router.chan = <<>>
    /\ ~router.tx
    /\ router' = [router EXCEPT !.pc = "idle", !.ret = "SharedStdoutClosed"]
    /\ UNCHANGED <<ed, edits, writes>>

\* AsyncEditor::flush is called.
FlushCall ==
    /\ ~ed.panic
    /\ router.rx
    /\ router.pc = "idle"
    /\ router' = [router EXCEPT !.pc = "flush", !.ret = None,
                                !.mark = Len(router.sent),
                                !.pending = (router.chan # <<>>)]
    /\ UNCHANGED <<ed, edits, writes>>

\* lib.rs 158-160: try_recv_ref gives a message, which goes to writeout.
FlushReceive ==
    /\ ~ed.panic
    /\ router.pc = "flush"
    /\ router.chan # <<>>
    /\ ed' \in Builds(writeout(Checked(ed), Head(router.chan)),
                     writeout(ed, Head(router.chan)))
    /\ router' = Taken(router)
    /\ UNCHANGED <<edits, writes>>

\* flush as it would be if it could return with messages in the channel.
FlushReturn_undrained ==
    /\ ~ed.panic
    /\ router.pc = "flush"
    /\ router' = [router EXCEPT !.pc = "idle", !.ret = "Ok"]
    /\ UNCHANGED <<ed, edits, writes>>

\* lib.rs 158, 161-162: try_recv_ref gives an error, and flush returns.
FlushReturn ==
    /\ ~ed.panic
    /\ router.pc = "flush"
    /\ router.chan = <<>>
    /\ router' = [router EXCEPT !.pc = "idle", !.ret = "Ok"]
    /\ UNCHANGED <<ed, edits, writes>>

NextChan ==
    \/ SinkWrite \/ SinkDrop \/ EditorDrop \/ AsyncCall \/ AsyncEvent
    \/ AsyncScrollKey \/ AsyncReceive \/ AsyncClosed \/ FlushCall
    \/ FlushReceive \/ FlushReturn

\* A call of async_editor polls the channel again and again, and takes a
\* message, or its end, that stays ready; the loop of flush runs on without
\* waiting for anything.
SpecChan ==
    /\ InitChan /\ [][NextChan]_vars
    /\ WF_vars(AsyncReceive \/ AsyncClosed)
    /\ WF_vars(FlushReceive \/ FlushReturn)

\* The same, with a producer that has run ahead of the editor by all but one
\* slot of the channel, and without the scrollback keys.
NextAhead ==
    \/ SinkWrite \/ SinkDrop \/ EditorDrop \/ AsyncCall \/ AsyncEvent
    \/ AsyncReceive \/ AsyncClosed \/ FlushCall \/ FlushReceive
    \/ FlushReturn

SpecAhead == InitAhead /\ [][NextAhead]_vars

(***************************************************************************)
(* Editor::setpos, step by step: a call on any line, cursor and view       *)
(* offset, the offsets one byte past the end of the line included.  Here   *)
(* router holds the position in setpos and the editor at the call.         *)
(***************************************************************************)
PosSizes == {<<2, 12>>, <<4, 12>>, <<6, 12>>}
PosTabStops == {3, 4}

InitPos ==
    /\ \E ts \in PosTabStops, size \in PosSizes, loose \in BOOLEAN :
         \E lineidx \in {0, 1} :
           \E lidx \in 0..(Len(SplitLines(WideText, <<>>)[lineidx + 1]) + 1),
              lofs \in 0..(Len(SplitLines(WideText, <<>>)[lineidx + 1]) + 1) :
                ed = [Editor_new(WideText, 3, ts, size, 0) EXCEPT
                         !.lineidx = lineidx, !.lidx = lidx, !.lofs = lofs,
                         !.loose_cursor = loose]
    /\ edits = 0
    /\ writes = 0
    /\ router = [pc |-> "setpos", start |-> ed]

\* lib.rs 899-919
SetposEnter ==
    /\ ~ed.panic
    /\ router.pc = "setpos"
    /\ ed' = setpos_snap(ed)
    /\ router' = [router EXCEPT !.pc = "loop"]
    /\ UNCHANGED <<edits, writes>>

\* lib.rs 921-932, one pass
SetposPass ==
    /\ ~ed.panic
    /\ router.pc = "loop"
    /\ IF ~WidthOk(ed)
       THEN ed' = Panic(ed) /\ UNCHANGED router
       ELSE IF setpos_fits(ed)
            THEN ed' = setpos_return(ed) /\ router' = [router EXCEPT !.pc = "returned"]
            ELSE ed' = setpos_advance(ed) /\ UNCHANGED router
    /\ UNCHANGED <<edits, writes>>

NextPos == SetposEnter \/ SetposPass

\* The thread that called setpos keeps running.
SpecPos == InitPos /\ [][NextPos]_vars /\ WF_vars(NextPos)

(***************************************************************************)
(* The claims of the specification, as properties of the specifications.   *)
(* An event whose handler panics does not return: the claims about the     *)
(* state handle_event leaves are claims about the states with panic FALSE. *)
(***************************************************************************)
\* C1: after every handle_event that returns, byteidx (lidx) is the byte
\* index of a grapheme boundary of lines[lineidx], the length included.
C1_CursorOnGraphemeBoundary ==
    ~ed.panic =>
        /\ ed.lineidx < Len(ed.lines)
        /\ IsGraphemeBoundary(Line(ed), ed.lidx)

\* C2: after every handle_event that returns, lofs <= byteidx and lofs is a
\* grapheme boundary of the current line.
C2_OffsetBehindCursor ==
    ~ed.panic =>
        /\ ed.lineidx < Len(ed.lines)
        /\ ed.lofs <= ed.lidx
        /\ IsGraphemeBoundary(Line(ed), ed.lofs)

\* C3: after every handle_event that returns, scrollstart <= lineidx,
\* lineidx < lines.len() and lines.len() >= 1.
C3_LineIndexInRange ==
    ~ed.panic =>
        /\ ed.scrollstart <= ed.lineidx
        /\ ed.lineidx < Len(ed.lines)
        /\ Len(ed.lines) >= 1

\* C3, its case: two lines of the eight have been joined, the terminal has
\* been resized to nine rows, and the view is scrolled with the cursor line
\* on its first row.
C3_ScrolledAfterJoinAndResize ==
    /\ ~ed.panic
    /\ edits = 1
    /\ Len(ed.lines) = 7
    /\ ed.sizey = 9
    /\ ed.scrollstart > 0
    /\ ed.lineidx = ed.scrollstart

\* C4: after every handle_event that returns, curx <= sizex - 1.
C4_CursorColumnOnScreen == ~ed.panic => ed.curx <= ed.sizex - 1

\* C5: from construction on, and after every handle_event that returns,
\* printlines + 2 <= cury <= sizey - 1.
C5_CursorRowInEditPane ==
    ~ed.panic => ed.printlines + 2 <= ed.cury /\ ed.cury <= ed.sizey - 1

\* C6: after construction and after every event,
\* sizey / 8 <= printlines <= sizey - 8.
C6_PrintPaneClamped ==
    ~ed.panic =>
        ed.sizey \div 8 <= ed.printlines /\ ed.printlines <= ed.sizey - 8

\* C7: after construction, every event and every writeout,
\* printy <= printlines and printx <= sizex.
C7_PrintCursorInPrintPane ==
    ~ed.panic => ed.printy <= ed.printlines /\ ed.printx <= ed.sizex

\* C8: a Char key or the Tab key and then Backspace, when both return,
\* restore the lines and the cursor (lineidx, byteidx).
C8_InsertThenBackspace ==
    ~ed.panic =>
        \A a \in {Key_Char(ed, g) : g \in Chars} \cup {Key_Tab(ed)} :
            LET b == Key_Backspace(a)
            IN  (~a.panic /\ ~b.panic) =>
                    /\ b.lines = ed.lines
                    /\ b.lineidx = ed.lineidx
                    /\ b.lidx = ed.lidx

\* C9: Enter and then Backspace, when both return, restore the lines and
\* the cursor (lineidx, byteidx).
C9_EnterThenBackspace ==
    ~ed.panic =>
        LET a == Key_Enter(ed)
            b == Key_Backspace(a)
        IN  (~a.panic /\ ~b.panic) =>
                /\ b.lines = ed.lines
                /\ b.lineidx = ed.lineidx
                /\ b.lidx = ed.lidx

\* C10: Ctrl-u with the cursor at byte b of line L leaves L[b..] as the
\* line, byteidx 0, and every other line and lineidx as they were.
C10_CtrlUDeletesToLineStart ==
    (~ed.panic /\ ed.lineidx < Len(ed.lines) /\ ed.lidx <= len(ed)) =>
        LET r == Key_CtrlU(ed)
        IN  ~r.panic =>
                /\ r.lines = [ed.lines EXCEPT
                                 ![ed.lineidx + 1] = Slice(Line(ed), ed.lidx, len(ed))]
                /\ r.lidx = 0
                /\ r.lineidx = ed.lineidx

\* C11: whenever setpos returns, the tab-expanded width of
\* lines[lineidx][lofs..byteidx] is at most sizex - 1 and curx is that
\* width; and every call of setpos ends, by returning or, where lofs stands
\* inside a character, by the panic of the slice (the loop itself always ends).
\* The step-by-step call returns what the operator setpos computes.
C11_SetposShowsCursorAndTerminates ==
    /\ [](router.pc = "returned" =>
             /\ WidthOk(ed)
             /\ grapheme_width_lofs_to_lidx(ed) <= ed.sizex - 1
             /\ ed.curx = grapheme_width_lofs_to_lidx(ed)
             /\ ed = setpos(router.start))
    /\ <>(router.pc = "returned" \/ ed.panic)

\* C11, its case: setpos has returned from a call with the cursor at the end
\* of the seven-byte line and the view at its start, on a screen too narrow
\* for the line: the view has advanced past the tab and the wide character.
C11_ViewAdvancedPastTabAndWide ==
    /\ router.pc = "returned"
    /\ router.start.lofs = 0
    /\ ed.lineidx = 0
    /\ ed.lidx = 7
    /\ ed.lofs >= 5

\* C12: for every initial content C, the editor constructed with C has
\* text() = C; and no event other than an editing key changes text(), nor
\* does writeout of any message.
C12_TextRoundTrip ==
    /\ \A C \in RoundTripContents : text(Editor_new(C, 3, 4, <<6, 12>>, 0)) = C
    /\ \E C \in Contents : ed.lines = SplitLines(C, <<>>) /\ text(ed) = C
    /\ [](~ed.panic =>
             \A buf \in Messages :
                 LET w == writeout(ed, buf)
                 IN ~w.panic => text(w) = text(ed))
    /\ [][(edits' = edits /\ ~ed'.panic) => text(ed') = text(ed)]_vars

\* C12, its case: no editing key has been handled, the terminal has been
\* resized and the cursor moved until the view scrolled, and text() is still
\* the initial content.
C12_UneditedAfterResizeAndScroll ==
    /\ ~ed.panic
    /\ edits = 0
    /\ ed.sizey = 9
    /\ ed.scrollstart > 0
    /\ ed.lidx > 0
    /\ text(ed) = TallText

\* C13: the channel never holds more than 500 messages, and a call of
\* SharedStdout::write made while it holds 500 returns WouldBlock and sends
\* no message.  (A call of write is one step of the producer: it never waits.)
C13_Backpressure ==
    /\ [](Len(router.chan) <= CHANNEL_CAPACITY)
    /\ [][(router'.calls = router.calls + 1
           /\ Len(router.chan) = CHANNEL_CAPACITY)
          => (router'.wret = "WouldBlock" /\ router'.chan = router.chan)]_vars

\* C13, amended: the same for a call of write made while the channel holds
\* 500 messages and the AsyncEditor has not been dropped.  After the drop the
\* full channel is a closed one, and write returns the error of C14.
C13_BackpressureWhileEditorLives ==
    /\ [](Len(router.chan) <= CHANNEL_CAPACITY)
    /\ [][(router'.calls = router.calls + 1
           /\ router.rx
           /\ Len(router.chan) = CHANNEL_CAPACITY)
          => (router'.wret = "WouldBlock" /\ router'.chan = router.chan)]_vars

\* C13, its case: a call of write has returned WouldBlock, the channel holds
\* 500 messages and the AsyncEditor lives.
C13_WouldBlockOnFullChannel ==
    /\ router.rx
    /\ router.wret = "WouldBlock"
    /\ Len(router.chan) = CHANNEL_CAPACITY
    /\ router.calls = CHANNEL_CAPACITY + 1

\* C14: every call of SharedStdout::write made after the AsyncEditor was
\* dropped returns the I/O error of kind Other, not Ok and not WouldBlock,
\* and sends nothing.
C14_WriteAfterDropFails ==
    [][(router'.calls = router.calls + 1 /\ ~router.rx)
       => (router'.wret = "Other" /\ router'.chan = router.chan)]_vars

\* C14, its case: the AsyncEditor was dropped with the channel full, and a
\* call of write made after that has returned the error.
C14_ErrorOnFullClosedChannel ==
    /\ ~router.rx
    /\ router.wret = "Other"
    /\ Len(router.chan) = CHANNEL_CAPACITY
    /\ router.calls = CHANNEL_CAPACITY + 1

\* C15: the editor takes the producer's output in the order of the calls of
\* write: the bytes passed to writeout are the first of the bytes sent, and
\* the history is the concatenation, in the order of the calls, of the byte
\* slices written, that is of the calls of write that returned Ok, as far as
\* they have been received.
C15_OutputInProgramOrder ==
    ~ed.panic =>
        /\ Len(router.received) <= Len(router.sent)
        /\ router.received = SubSeq(router.sent, 1, Len(router.received))
        /\ Len(ed.histbuf) <= Len(router.written)
        /\ ed.histbuf = SubSeq(router.written, 1, Len(ed.histbuf))

C17_ClosedAfterDrain ==
    /\ [](router.ret = "SharedStdoutClosed" =>
             /\ ~router.tx
             /\ router.chan = <<>>
             /\ router.received = router.sent)
    /\ ((~router.tx /\ router.pc = "async_editor")
            ~> (ed.panic \/ (router.pc = "idle"
                             /\ router.ret \in {"SharedStdoutClosed", "CtrlC"})))

\* C17, its case: async_editor has returned SharedStdoutClosed after the
\* producer wrote three messages and dropped the SharedStdout, and the last
\* of them was taken after the drop.
C17_ClosedWithThreeMessagesDrained ==
    /\ router.pc = "idle"
    /\ router.ret = "SharedStdoutClosed"
    /\ router.calls = 3
    /\ router.written = router.received
    /\ Len(ed.histbuf) = 4

\* C18: when flush has returned Ok, the bytes that were in the channel when
\* it was called have all been passed to writeout, in the order they were
\* sent; a flush that finds the channel empty takes nothing more and returns
\* with its next step; and a call of flush ends (in a return, or in a panic
\* of writeout).
C18_FlushDrains ==
    /\ []((router.pc = "idle" /\ router.ret = "Ok") =>
             /\ Len(router.received) >= router.mark
             /\ Len(router.received) <= Len(router.sent)
             /\ SubSeq(router.received, 1, router.mark)
                    = SubSeq(router.sent, 1, router.mark)
             /\ (~ed.panic =>
                    SubSeq(ed.histbuf, 1, router.mark)
                        = SubSeq(router.sent, 1, router.mark)))
    /\ [][(router.pc = "flush" /\ router.chan = <<>>
              /\ router'.pc # "flush") =>
             (ed' = ed /\ router'.ret = "Ok"
              /\ router'.received = router.received)]_vars
    /\ [][(router.pc = "flush" /\ router.chan = <<>>) =>
             (ed' = ed /\ router'.received = router.received)]_vars
    /\ ((router.pc = "flush") ~> (router.pc = "idle" \/ ed.panic))

\* C18, its case: flush was called after two calls of write (three bytes)
\* with a message in the channel, and has returned Ok.
C18_FlushedTwoMessages ==
    /\ router.pc = "idle"
    /\ router.ret = "Ok"
    /\ router.pending
    /\ router.mark = 3
    /\ ~ed.panic

C20_PrintPaneOverflow ==
    [][\A buf \in Messages :
          (/\ writes' = writes + 1
           /\ ~ed.panic /\ ~ed'.panic /\ ~ed.hb_active
           /\ ed' = writeout(ed, buf))
          => LET row == writebuf_row(ed, buf)
             IN IF row > ed.printlines - 1
                THEN /\ writebuf_ScrollUp(ed, buf) = row - (ed.printlines - 1)
                     /\ ed'.printy = ed.printlines - 1
                ELSE /\ writebuf_ScrollUp(ed, buf) = 0
                     /\ ed'.printy = row]_vars

\* C21: in a state outside scrollback whose history holds at least a page
\* (printlines line-equivalents), Ctrl-PageUp sets hb_active and paints a
\* page that is not empty and is the end of the history: the bytes from
\* hb_start_index up to last_index(), printlines line-equivalents of them.
C21_ScrollbackActivation ==
    (/\ ~ed.panic /\ ~ed.hb_active
     /\ GatherForward(ed.histbuf, 0, <<>>, ed.sizex, 0, ed.printlines,
                      ed.sizex).num_lines >= ed.printlines)
    => LET last == get_last_index(ed.histbuf)
           r == Key_CtrlPageUp(ed)
           page == writehistory_PageUp_page(
                       [ed EXCEPT !.hb_active = TRUE, !.hb_start_index = last,
                                  !.hb_end_index = last])
       IN /\ r.hb_active
          /\ page # <<>>
          /\ r.hb_end_index = last
          /\ page = SubSeq(ed.histbuf, r.hb_start_index + 1, last)

\* C22: after every event handled, the caret row is the row on which redraw
\* shows the current line: cury = printlines + 2 + (lineidx - scrollstart).
\* Stated for the states whose edit pane has a row, printlines + 2 < sizey
\* (a resize to a screen of fewer than 8 rows leaves none).
C22_CaretRowMapping ==
    (~ed.panic /\ ed.printlines + 2 < ed.sizey)
    => ed.cury = ed.printlines + 2 + (ed.lineidx - ed.scrollstart)

\* C23: in every state the editor reaches, a vertical motion (Up, Down,
\* PageUp, PageDown, Enter, Left, Right) that returns leaves the current line
\* inside the edit pane, scrollstart <= lineidx < scrollstart + (sizey -
\* printlines - 2), and a downward one (Down, PageDown, Enter, Right) does
\* not decrease scrollstart.  Stated for the states whose edit pane has a row.
C23_CurrentLineVisible ==
    (~ed.panic /\ ed.printlines + 2 < ed.sizey)
    => \A event \in {"Up", "Down", "PageUp", "PageDown", "Enter", "Left",
                     "Right"} :
          \A e \in {ed, Checked(ed)} :
              LET r == handle_event(e, event).ed
              IN ~r.panic =>
                    /\ r.scrollstart <= r.lineidx
                    /\ r.lineidx < r.scrollstart + (r.sizey - r.printlines - 2)
                    /\ event \in {"Down", "PageDown", "Enter", "Right"}
                           => r.scrollstart >= e.scrollstart

\* C24: in every state the editor reaches, whatever vertical moves led to it,
\* the handler of an editing key (Char, Tab, Backspace, Delete, Enter, Ctrl-u)
\* or of a horizontal move (Left, Right, Home, End, Ctrl-a, Ctrl-e, Ctrl-Left,
\* Ctrl-Right) that returns leaves loose_cursor false.
C24_LooseCursorCleared ==
    ~ed.panic
    => \A event \in {"Char a", "Tab", "Backspace", "Delete", "Enter", "Ctrl-u",
                     "Left", "Right", "Home", "End", "Ctrl-a", "Ctrl-e",
                     "Ctrl-Left", "Ctrl-Right"} :
          \A e \in {ed, Checked(ed)} :
              LET r == handle_event(e, event).ed
              IN ~r.panic => ~r.loose_cursor

\* C25: Event::Resize(x, y) sets sizex and sizey to x and y and keeps the
\* proportion of the split: the new printlines is floor(p * y) clamped to
\* [y / 8, y - 8], where p is printlines / sizey before the resize, limited to
\* [0.1, 0.9].  Stated for the states whose print pane is inside the screen.
C25_ResizeKeepsProportion ==
    (~ed.panic /\ ed.printlines < ed.sizey)
    => \A size \in ProportionSizes : \A e \in {ed, Checked(ed)} :
          LET y == size[2]
              r == Event_Resize(e, size[1], y)
              scaled == IF 10 * e.printlines < e.sizey THEN y \div 10
                        ELSE IF 10 * e.printlines > 9 * e.sizey
                             THEN (9 * y) \div 10
                             ELSE (e.printlines * y) \div e.sizey
          IN ~r.panic =>
                /\ r.sizex = size[1]
                /\ r.sizey = y
                /\ r.printlines = Min(Max(scaled, y \div 8), y - 8)

\* C26: in every state the editor reaches, a Ctrl-PageUp or Ctrl-PageDown
\* that paints a page and leaves scrollback active has painted exactly the
\* history bytes with index in [hb_start_index, hb_end_index), and
\* hb_start_index <= hb_end_index <= last_index(); and a second Ctrl-PageUp
\* right after a first paints the bytes that end where the first page began,
\* none skipped and none repeated.
C26_PageDelimiters ==
    ~ed.panic
    => LET h == ed.histbuf
           last == get_last_index(h)
           Delimited(r, page) ==
               r.hb_active =>
                   /\ r.hb_start_index <= r.hb_end_index
                   /\ r.hb_end_index <= last
                   /\ page = SubSeq(h, r.hb_start_index + 1, r.hb_end_index)
           entered == IF ed.hb_active THEN ed
                      ELSE [ed EXCEPT !.hb_active = TRUE,
                                      !.hb_start_index = last,
                                      !.hb_end_index = last]
           up1 == Key_CtrlPageUp(ed)
           up2 == Key_CtrlPageUp(up1)
       IN /\ (ed.hb_active /\ ed.hb_start_index = 0)
             \/ Delimited(up1, writehistory_PageUp_page(entered))
          /\ Delimited(Key_CtrlPageDown(ed), writehistory_PageDown_page(ed))
          /\ (up1.hb_active /\ up1.hb_start_index # 0 /\ up2.hb_start_index # 0)
             => /\ up2.hb_end_index = up1.hb_start_index
                /\ writehistory_PageUp_page(up1)
                       = SubSeq(h, up2.hb_start_index + 1, up1.hb_start_index)

\* C27: with printlines >= 1 and no new output, pressing Ctrl-PageDown again
\* and again from a scrollback state ends the scrollback; a press that leaves
\* it on has gathered printlines lines and has moved hb_end_index up, within
\* the history; and a press that gathers fewer ends the scrollback and
\* renders the live tail, get_recent(printlines * sizex).
C27_PagingDownExits ==
    /\ ((router.pc = "paging" /\ ed.hb_active /\ ed.printlines >= 1)
           ~> (~ed.hb_active \/ ed.panic))
    /\ [][(router.pc = "paging" /\ router'.pc = "paging" /\ ed.hb_active
              /\ ed.printlines >= 1 /\ ~ed'.panic)
          => LET g == GatherForward(ed.histbuf, ed.hb_end_index, <<>>,
                                    ed.sizex, 0, ed.printlines, ed.sizex)
             IN IF g.num_lines < ed.printlines
                THEN /\ ~ed'.hb_active
                     /\ ed'.printx = writebuf(
                            [ed EXCEPT !.printx = 0, !.printy = 0],
                            get_recent(ed.histbuf,
                                       ed.printlines * ed.sizex)).printx
                     /\ ed'.printy = writebuf(
                            [ed EXCEPT !.printx = 0, !.printy = 0],
                            get_recent(ed.histbuf,
                                       ed.printlines * ed.sizex)).printy
                ELSE /\ ed'.hb_active
                     /\ ed'.hb_end_index > ed.hb_end_index
                     /\ ed'.hb_end_index <= get_last_index(ed.histbuf)
                     /\ ed'.hb_start_index = ed.hb_end_index]_vars

\* C27, its case: paging began at hb_end_index = 0 with 14 bytes of history;
\* two presses each showed a full page and the third ended the scrollback.
C27_ThreePressesToExit ==
    /\ router.pc = "paging"
    /\ router.mark = 0
    /\ ~ed.hb_active /\ ~ed.panic
    /\ ed.hb_end_index = 14
    /\ ed.hb_start_index = 14

\* C28: a writeout while the scrollback is on changes the history buffer and
\* nothing else of the editor (the print cursor, hb_start_index,
\* hb_end_index, hb_active, the text and the cursor stay, and writebuf is not
\* called); a writeout while it is off appends to the history too and
\* renders the bytes at the print cursor with writebuf.
C28_WriteoutDuringScrollback ==
    [][\A buf \in Messages :
          (/\ writes' = writes + 1
           /\ ~ed.panic
           /\ ed' \in Builds(writeout(Checked(ed), buf), writeout(ed, buf)))
          => /\ ed'.histbuf = ed.histbuf \o buf \/ ed'.panic
             /\ ed.hb_active
                    => ed' = [ed EXCEPT !.histbuf = ed.histbuf \o buf]
             /\ (~ed.hb_active /\ ~ed'.panic)
                    => /\ ed' = writebuf([ed EXCEPT !.histbuf = ed.histbuf \o buf],
                                         buf)
                       /\ ed'.printy = IF writebuf_row(ed, buf) > ed.printlines
                                          \/ writebuf_row(ed, buf) > ed.sizey
                                       THEN Min(ed.printlines, ed.sizey)
                                       ELSE writebuf_row(ed, buf)
                       /\ [ed' EXCEPT !.printx = 0, !.printy = 0, !.histbuf = <<>>]
                              = [ed EXCEPT !.printx = 0, !.printy = 0,
                                           !.histbuf = <<>>]]_vars

\* C28, its case: a message was written while the scrollback was on (the
\* history holds its bytes, the print cursor is where Ctrl-PageUp left it),
\* after one that was rendered.
C28_HistoryGrewUnderScrollback ==
    /\ ed.hb_active /\ ~ed.panic
    /\ writes = 2
    /\ Len(ed.histbuf) > ed.hb_end_index
    /\ ed.hb_end_index > 0
    /\ ed.printx = 0 /\ ed.printy = 0

\* C29: in every state the editor reaches, the caret column computed from
\* lofs and lidx (a tab filling up to the next tab stop counted from the
\* start of the line) is the number of cells that redrawline prints for
\* lines[lineidx][lofs..lidx]: the caret is right after the text before it.
C29_CaretAfterRenderedText ==
    (~ed.panic /\ WidthOk(ed))
    => grapheme_width_lofs_to_lidx(ed) = redrawline_cells(ed)

\* C30: a Ctrl-Right that returns never leaves the cursor at an earlier
\* position than it found it, and a Ctrl-Left that returns never leaves it at
\* a later one, in the lexicographic order on (lineidx, lidx); so Ctrl-Right
\* at the end of the last line and Ctrl-Left at the start of the first line
\* leave the cursor where it is.
C30_WordMotionDirectional ==
    [][/\ (CtrlRight /\ ~ed'.panic)
          => \/ ed'.lineidx > ed.lineidx
             \/ (ed'.lineidx = ed.lineidx /\ ed'.lidx >= ed.lidx)
       /\ (CtrlLeft /\ ~ed'.panic)
          => \/ ed'.lineidx < ed.lineidx
             \/ (ed'.lineidx = ed.lineidx /\ ed'.lidx <= ed.lidx)]_vars

\* C31: a call of write that returns WouldBlock leaves no byte in the staging
\* buffer of the SharedStdout, and a message sent holds the bytes of exactly
\* one call of write; so a producer that calls write again with the same
\* bytes until it returns Ok has each slice delivered exactly once.
C31_ExactlyOnceUnderRetry ==
    /\ router.wret = "WouldBlock" => router.buf = <<>>
    /\ router.chan # <<>>
       => \E k \in 1..router.calls :
              router.chan[Len(router.chan)] = WriteBytes(k)

\* C32: outside the scrollback, in every state the editor reaches, a
\* Ctrl-PageDown that returns leaves hb_active false and paints no older
\* page of the history over the live print pane: the bytes it passes to
\* writebuf are the last bytes of the history, not bytes that begin at the
\* hb_end_index left by an earlier page and stop before the newest output.
C32_PageDownOnlyInScrollback ==
    (~ed.panic /\ ~ed.hb_active)
    => \A e \in {ed, Checked(ed)} :
          LET r == Key_CtrlPageDown(e)
              page == writehistory_PageDown_page(e)
              last == get_last_index(e.histbuf)
          IN ~r.panic
             => /\ ~r.hb_active
                /\ Len(page) <= last
                /\ page = SubSeq(e.histbuf, last - Len(page) + 1, last)
                /\ r.hb_end_index = last

====
